---- MODULE Spec2Model ----
(***************************************************************************)
(* A model of data_tools/vg_to_roidb_vrr.py: the conversion of the Visual  *)
(* Genome (VrR-VG) annotations into the flat arrays of the hdf5 ROIDB.     *)
(*                                                                         *)
(* Spec      the pipeline of main(): create_from_xml, sync_objects,        *)
(*           filter_object_boxes, merge_duplicate_boxes, the vocabulary,   *)
(*           encode_objects, encode_relationships.                         *)
(* SpecIoU   the IoU helper of merge_duplicate_boxes on pairs of boxes.    *)
(* SpecBox   encode_box on one region.                                     *)
(* SpecDict  build_token_dict on one vocabulary.                           *)
(* SpecSplit encode_splits on one image list.                              *)
(*                                                                         *)
(* Python floats are modelled by exact rationals (a quotient is a pair     *)
(* <<numerator, denominator>>); where the rounding of a float product can  *)
(* change a floor or a ceil, the model takes both outcomes.  Strings are   *)
(* sequences of character codes, compared as Python compares strings.      *)
(***************************************************************************)
EXTENDS Integers, Sequences, FiniteSets, TLC

VARIABLES
    pc,        \* the position of the program
    args,      \* the arguments of the function under test (SpecIoU, SpecBox, SpecDict, SpecSplit)
    ret,       \* its return value
    obj_data,  \* main: obj_data, a list of images, each with 'objects' and, after encode_objects, 'id_to_idx'
    rel_data,  \* main: rel_data, a list of images, each with 'relationships'
    merge,     \* merge_duplicate_boxes: num_merged, and objs, num_obj and merged_num_obj of every image done
    vocab,     \* main: obj_list, pred_list, the tokens, the counters and the four dictionaries
    enc_obj,   \* encode_objects: its locals, then its return value
    enc_rel    \* encode_relationships: its locals, then its return value

vars == <<pc, args, ret, obj_data, rel_data, merge, vocab, enc_obj, enc_rel>>

-----------------------------------------------------------------------------
(* Bounds of the model *)

MaxCoord == 2       \* SpecIoU: x and y of a box range over 0..MaxCoord
MaxExtent == 2      \* SpecIoU: w and h of a box range over 0..MaxExtent
MaxBoxCoord == 3    \* SpecBox: x and y of a region range over 0..MaxBoxCoord
MaxBoxExtent == 3   \* SpecBox: w and h of a region range over 0..MaxBoxExtent
MaxOrg == 3         \* SpecBox: org_h and org_w range over 1..MaxOrg
MaxTarget == 5      \* SpecBox: im_long_size ranges over 1..MaxTarget
MaxVocab == 3       \* SpecDict: a vocabulary holds at most MaxVocab tokens
MaxSplitImages == 10 \* SpecSplit: at most MaxSplitImages images are split by position
MaxLabelled == 3    \* SpecSplit: at most MaxLabelled images carry a split of their own
MaxItems == 5       \* Spec: the XML files hold at most MaxItems images, objects and relations in all
MaxMergeObjects == 3 \* SpecMerge: the image holds at most MaxMergeObjects objects
OrgHeight == 40     \* Spec: imdb['original_heights'] of every image
OrgWidth == 50      \* Spec: imdb['original_widths'] of every image

-----------------------------------------------------------------------------
(* Helpers *)

Min(a, b) == IF a <= b THEN a ELSE b

Max(a, b) == IF a >= b THEN a ELSE b

Range(s) == {s[k] : k \in 1..Len(s)}

\* The lists without repetition of at most n elements of S: the orders in
\* which a Python set of at most n elements of S can be iterated.
RECURSIVE ListsOf(_, _)
ListsOf(S, n) ==
    IF n = 0 THEN {<<>>}
    ELSE {<<>>} \cup {<<t>> \o l : <<t, l>> \in {p \in S \X ListsOf(S, n - 1) : p[1] \notin Range(p[2])}}

\* Python's order on strings: by character code, a proper prefix first.
RECURSIVE StrLess(_, _)
StrLess(s, t) ==
    IF t = <<>> THEN FALSE
    ELSE IF s = <<>> THEN TRUE
    ELSE IF s[1] # t[1] THEN s[1] < t[1]
    ELSE StrLess(Tail(s), Tail(t))

\* Python's sorted() on a list of strings, as an insertion sort.
RECURSIVE SortedInsert(_, _)
SortedInsert(t, l) ==
    IF l = <<>> THEN <<t>>
    ELSE IF StrLess(t, l[1]) THEN <<t>> \o l
    ELSE <<l[1]>> \o SortedInsert(t, Tail(l))

RECURSIVE sorted(_)
sorted(l) == IF l = <<>> THEN <<>> ELSE SortedInsert(l[1], sorted(Tail(l)))

\* The tokens of the model: "a", "aa", "ab", "b", "ba" as character codes.
TokenPool == {<<1>>, <<1, 1>>, <<1, 2>>, <<2>>, <<2, 1>>}

\* The value of every variable a specification does not use.
Idle == <<>>

-----------------------------------------------------------------------------
(* merge_duplicate_boxes: the helpers IoU, to_x1y1x2y2, inside, overlap *)

to_x1y1x2y2(obj) == <<obj.x, obj.y, obj.x + obj.w, obj.y + obj.h>>

\* A variant of IoU that leaves out the first of the four tests of disjointness.
IoU_OneSided(b1, b2) ==
    IF b1[4] <= b2[2] \/ b1[1] >= b2[3] \/ b1[2] >= b2[4]
    THEN <<0, 1>>
    ELSE LET minc == [k \in 1..4 |-> Min(b1[k], b2[k])]
             maxc == [k \in 1..4 |-> Max(b1[k], b2[k])]
             union_area == (maxc[3] - minc[1]) * (maxc[4] - minc[2])
             int_area == (minc[3] - maxc[1]) * (minc[4] - maxc[2])
         IN  <<int_area, union_area>>

\* The quotient float(int_area)/float(union_area) as <<int_area, union_area>>,
\* and the integer 0 of the early return as <<0, 1>>.
IoU(b1, b2) ==
    IF b1[3] <= b2[1] \/ b1[4] <= b2[2] \/ b1[1] >= b2[3] \/ b1[2] >= b2[4]
    THEN <<0, 1>>
    ELSE LET minc == [k \in 1..4 |-> Min(b1[k], b2[k])]
             maxc == [k \in 1..4 |-> Max(b1[k], b2[k])]
             union_area == (maxc[3] - minc[1]) * (maxc[4] - minc[2])
             int_area == (minc[3] - maxc[1]) * (minc[4] - maxc[2])
         IN  <<int_area, union_area>>

\* q1 == q2 for two quotients with positive denominators.
QuotEq(q1, q2) == q1[1] * q2[2] = q2[1] * q1[2]

\* q > n/d for a quotient q with a positive denominator.
QuotGreater(q, n, d) == q[1] * d > n * q[2]

inside(b1, b2) == b1[1] >= b2[1] /\ b1[2] >= b2[2] /\ b1[3] <= b2[3] /\ b1[4] <= b2[4]

overlap(obj1, obj2) ==
    LET b1 == to_x1y1x2y2(obj1)
        b2 == to_x1y1x2y2(obj2)
        iou == IoU(b1, b2)
    IN  IF b1 = b2 \/ QuotGreater(iou, 9, 10) THEN 1
        ELSE IF (inside(b1, b2) \/ inside(b2, b1)) /\ obj1.names[1] = obj2.names[1] THEN 2
        ELSE IF QuotGreater(iou, 6, 10) /\ obj1.names[1] = obj2.names[1] THEN 3
        ELSE 0

-----------------------------------------------------------------------------
(* SpecIoU: IoU on the boxes of two objects *)

IoUBoxes == {to_x1y1x2y2([x |-> x, y |-> y, w |-> w, h |-> h]) :
                x \in 0..MaxCoord, y \in 0..MaxCoord, w \in 0..MaxExtent, h \in 0..MaxExtent}

InitIoU ==
    /\ pc = "IoU"
    /\ args \in [b1 : IoUBoxes, b2 : IoUBoxes]
    /\ ret = Idle
    /\ obj_data = Idle /\ rel_data = Idle /\ merge = Idle
    /\ vocab = Idle /\ enc_obj = Idle /\ enc_rel = Idle

CallIoU ==
    /\ pc = "IoU"
    /\ ret' = IoU(args.b1, args.b2)
    /\ pc' = "IoU_done"
    /\ UNCHANGED <<args, obj_data, rel_data, merge, vocab, enc_obj, enc_rel>>

SpecIoU == InitIoU /\ [][CallIoU]_vars

\* C7 (as stated): IoU(b1,b2) == IoU(b2,b1) for all pairs of boxes, and
\* IoU(b,b) == 1 for every box b.
C7_AsStated ==
    pc = "IoU_done" =>
        /\ QuotEq(ret, IoU(args.b2, args.b1))
        /\ (args.b1 = args.b2 => QuotEq(ret, <<1, 1>>))

\* C7 (amended): IoU(b1,b2) == IoU(b2,b1) for all pairs of boxes; IoU(b,b) == 1
\* for every box b of positive width and height, and IoU(b,b) == 0 for a box
\* whose width or height is zero.
C7_IoUSymmetricAndOneOnProperBox ==
    pc = "IoU_done" =>
        /\ QuotEq(ret, IoU(args.b2, args.b1))
        /\ (args.b1 = args.b2 /\ args.b1[3] > args.b1[1] /\ args.b1[4] > args.b1[2]
                => QuotEq(ret, <<1, 1>>))
        /\ (args.b1 = args.b2 /\ (args.b1[3] = args.b1[1] \/ args.b1[4] = args.b1[2])
                => QuotEq(ret, <<0, 1>>))

\* Two different boxes that overlap in part have been compared.
C7_Witness ==
    /\ pc = "IoU_done"
    /\ args.b1 # args.b2
    /\ ret[1] > 0 /\ ret[1] < ret[2]

\* The area of the rectangle <<x1, y1, x2, y2>>.
RectangleArea(b) == (b[3] - b[1]) * (b[4] - b[2])

\* The width and the height of the part two rectangles have in common; not
\* positive when they have none.
CommonWidth(b1, b2) == Min(b1[3], b2[3]) - Max(b1[1], b2[1])

CommonHeight(b1, b2) == Min(b1[4], b2[4]) - Max(b1[2], b2[2])

\* C13: IoU returns 0 when the two rectangles do not overlap with positive
\* area, and otherwise the area of their intersection divided by the area of
\* their union, area(b1) + area(b2) - intersection area.
C13_IoUIsIntersectionOverUnion ==
    pc = "IoU_done" =>
        LET cw == CommonWidth(args.b1, args.b2)
            ch == CommonHeight(args.b1, args.b2)
        IN  IF cw <= 0 \/ ch <= 0
            THEN QuotEq(ret, <<0, 1>>)
            ELSE QuotEq(ret, <<cw * ch,
                               RectangleArea(args.b1) + RectangleArea(args.b2) - cw * ch>>)

-----------------------------------------------------------------------------
(* encode_box *)

\* Whether the rounding of scale = float(im_long_size)/m and of the product
\* scale*v can move the product off the integer it equals exactly.
RoundingMatters(im_long_size, m, v) ==
    (im_long_size * v) % m = 0 /\ im_long_size % m # 0 /\ v # 0

\* math.floor(scale*v); r is 1 when the float product falls short of the integer.
FloorScaled(im_long_size, m, v, r) ==
    ((im_long_size * v) \div m) - (IF RoundingMatters(im_long_size, m, v) THEN r ELSE 0)

\* math.ceil(scale*v); r is 1 when the float product exceeds the integer.
CeilScaled(im_long_size, m, v, r) ==
    (0 - ((0 - im_long_size * v) \div m)) + (IF RoundingMatters(im_long_size, m, v) THEN r ELSE 0)

\* The outcomes of the float rounding of the four products of one call: 1 for
\* a product that misses the integer it equals exactly.
Roundings(region, org_h, org_w, im_long_size) ==
    LET m == Max(org_h, org_w)
        Outcomes(v) == IF RoundingMatters(im_long_size, m, v) THEN {0, 1} ELSE {0}
    IN  [x : Outcomes(region.x - 1), y : Outcomes(region.y - 1),
         w : Outcomes(region.w), h : Outcomes(region.h)]

\* A variant of encode_box_xywh that clamps the position to the image size
\* itself, without the margin of 2.
encode_box_xywh_NoMargin(region, org_h, org_w, im_long_size, rnd) ==
    LET m == Max(org_h, org_w)
        image_size == im_long_size
        x0 == FloorScaled(im_long_size, m, region.x - 1, rnd.x)
        y0 == FloorScaled(im_long_size, m, region.y - 1, rnd.y)
        w0 == CeilScaled(im_long_size, m, region.w, rnd.w)
        h0 == CeilScaled(im_long_size, m, region.h, rnd.h)
        x1 == IF x0 < 0 THEN 0 ELSE x0
        y1 == IF y0 < 0 THEN 0 ELSE y0
        x == IF x1 > image_size THEN image_size ELSE x1
        y == IF y1 > image_size THEN image_size ELSE y1
        w == IF x + w0 >= image_size THEN image_size - x ELSE w0
        h == IF y + h0 >= image_size THEN image_size - y ELSE h0
    IN  [x |-> x, y |-> y, w |-> w, h |-> h]

\* A variant of encode_box_xywh that leaves the extent as scaled, without
\* cutting it at the edge of the image.
encode_box_xywh_NoShrink(region, org_h, org_w, im_long_size, rnd) ==
    LET m == Max(org_h, org_w)
        image_size == im_long_size
        x0 == FloorScaled(im_long_size, m, region.x - 1, rnd.x)
        y0 == FloorScaled(im_long_size, m, region.y - 1, rnd.y)
        w0 == CeilScaled(im_long_size, m, region.w, rnd.w)
        h0 == CeilScaled(im_long_size, m, region.h, rnd.h)
        x1 == IF x0 < 0 THEN 0 ELSE x0
        y1 == IF y0 < 0 THEN 0 ELSE y0
        x == IF x1 > image_size - 2 THEN image_size - 2 ELSE x1
        y == IF y1 > image_size - 2 THEN image_size - 2 ELSE y1
    IN  [x |-> x, y |-> y, w |-> w0, h |-> h0]

\* encode_box up to the conversion to the center: the scaled and clamped x, y, w, h.
encode_box_xywh(region, org_h, org_w, im_long_size, rnd) ==
    LET m == Max(org_h, org_w)
        image_size == im_long_size
        x0 == FloorScaled(im_long_size, m, region.x - 1, rnd.x)
        y0 == FloorScaled(im_long_size, m, region.y - 1, rnd.y)
        w0 == CeilScaled(im_long_size, m, region.w, rnd.w)
        h0 == CeilScaled(im_long_size, m, region.h, rnd.h)
        x1 == IF x0 < 0 THEN 0 ELSE x0
        y1 == IF y0 < 0 THEN 0 ELSE y0
        x == IF x1 > image_size - 2 THEN image_size - 2 ELSE x1
        y == IF y1 > image_size - 2 THEN image_size - 2 ELSE y1
        w == IF x + w0 >= image_size THEN image_size - x ELSE w0
        h == IF y + h0 >= image_size THEN image_size - y ELSE h0
    IN  [x |-> x, y |-> y, w |-> w, h |-> h]

\* The box of encode_box, and whether one of its two assertions failed.
encode_box(region, org_h, org_w, im_long_size, rnd) ==
    LET c == encode_box_xywh(region, org_h, org_w, im_long_size, rnd)
        box == <<c.x + (c.w \div 2), c.y + (c.h \div 2), c.w, c.h>>
    IN  [box |-> box, AssertionError |-> ~(box[3] > 0 /\ box[4] > 0)]

-----------------------------------------------------------------------------
(* SpecBox: encode_box on one region *)

InitBox ==
    /\ pc = "encode_box"
    /\ args \in [region : [x : 0..MaxBoxCoord, y : 0..MaxBoxCoord,
                           w : 0..MaxBoxExtent, h : 0..MaxBoxExtent],
                 org_h : 1..MaxOrg, org_w : 1..MaxOrg, im_long_size : 1..MaxTarget]
    /\ ret = Idle
    /\ obj_data = Idle /\ rel_data = Idle /\ merge = Idle
    /\ vocab = Idle /\ enc_obj = Idle /\ enc_rel = Idle

CallEncodeBox ==
    /\ pc = "encode_box"
    /\ \E rnd \in Roundings(args.region, args.org_h, args.org_w, args.im_long_size) :
          ret' = encode_box(args.region, args.org_h, args.org_w, args.im_long_size, rnd)
    /\ pc' = "encode_box_done"
    /\ UNCHANGED <<args, obj_data, rel_data, merge, vocab, enc_obj, enc_rel>>

SpecBox == InitBox /\ [][CallEncodeBox]_vars

\* C5: for a region with w > 0 and h > 0 and a target size of at least 4,
\* encode_box returns a box of positive width and height: neither assertion fails.
C5_EncodedExtentPositive ==
    (pc = "encode_box_done" /\ args.region.w > 0 /\ args.region.h > 0 /\ args.im_long_size >= 4)
        => /\ ~ret.AssertionError
           /\ ret.box[3] > 0
           /\ ret.box[4] > 0

\* A region scaled beyond the image: its position is clamped to size - 2 and
\* its width is cut down to 2.
C5_Witness ==
    /\ pc = "encode_box_done"
    /\ args.region.w > 0 /\ args.region.h > 0 /\ args.im_long_size >= 4
    /\ args.im_long_size * (args.region.x - 1) > (args.im_long_size - 2) * Max(args.org_h, args.org_w)

\* encode_box has returned a box: neither assertion failed.
BoxEmitted == pc = "encode_box_done" /\ ~ret.AssertionError

\* The top-left position of the returned box, before the conversion to the center.
EmittedX == ret.box[1] - (ret.box[3] \div 2)

EmittedY == ret.box[2] - (ret.box[4] \div 2)

\* C11 (as stated): for every box encode_box emits, the scaled top-left
\* position is within 0..target-2 in x and in y, and the extent is cut so that
\* x + w < target and y + h < target.
C11_AsStated ==
    BoxEmitted =>
        /\ 0 <= EmittedX /\ EmittedX <= args.im_long_size - 2
        /\ 0 <= EmittedY /\ EmittedY <= args.im_long_size - 2
        /\ EmittedX + ret.box[3] < args.im_long_size
        /\ EmittedY + ret.box[4] < args.im_long_size

\* C11 (amended): for every box encode_box emits for a target size of at
\* least 2, the scaled top-left position is within 0..target-2 in x and in y,
\* and the extent is cut so that x + w <= target and y + h <= target.
C11_BoxWithinTarget ==
    (BoxEmitted /\ args.im_long_size >= 2) =>
        /\ 0 <= EmittedX /\ EmittedX <= args.im_long_size - 2
        /\ 0 <= EmittedY /\ EmittedY <= args.im_long_size - 2
        /\ EmittedX + ret.box[3] <= args.im_long_size
        /\ EmittedY + ret.box[4] <= args.im_long_size

\* A region whose scaled width passes the edge of the image: the width is cut
\* to target - x, so that x + w is the target size itself.
C11_Witness ==
    /\ BoxEmitted /\ args.im_long_size >= 2
    /\ args.im_long_size * (args.region.x - 1 + args.region.w)
            > args.im_long_size * Max(args.org_h, args.org_w)
    /\ EmittedX > 0
    /\ EmittedX + ret.box[3] = args.im_long_size
    /\ ret.box[3] = 2
    /\ ret.box[1] = args.im_long_size - 1

-----------------------------------------------------------------------------
(* build_token_dict *)

\* The two dictionaries the loop over vocab_sorted fills, next_idx starting at 1.
TokenDicts(vocab_sorted) ==
    [token_to_idx |-> [t \in Range(vocab_sorted) |->
                          CHOOSE i \in 1..Len(vocab_sorted) :
                              /\ vocab_sorted[i] = t
                              /\ \A j \in (i + 1)..Len(vocab_sorted) : vocab_sorted[j] # t],
     idx_to_token |-> [i \in 1..Len(vocab_sorted) |-> vocab_sorted[i]]]

\* A variant of build_token_dict that numbers the tokens in the order of list(vocab).
build_token_dict_Unsorted(vocab_list) == TokenDicts(vocab_list)

\* vocab_list is list(vocab): the tokens of the set in the order Python iterates it.
build_token_dict(vocab_list) == TokenDicts(sorted(vocab_list))

-----------------------------------------------------------------------------
(* SpecDict: build_token_dict on one vocabulary *)

InitDict ==
    /\ pc = "build_token_dict"
    /\ args \in [vocab : ListsOf(TokenPool, MaxVocab)]
    /\ ret = Idle
    /\ obj_data = Idle /\ rel_data = Idle /\ merge = Idle
    /\ vocab = Idle /\ enc_obj = Idle /\ enc_rel = Idle

CallBuildTokenDict ==
    /\ pc = "build_token_dict"
    /\ ret' = build_token_dict(args.vocab)
    /\ pc' = "build_token_dict_done"
    /\ UNCHANGED <<args, obj_data, rel_data, merge, vocab, enc_obj, enc_rel>>

SpecDict == InitDict /\ [][CallBuildTokenDict]_vars

\* C6: build_token_dict gives every token the index 1 + (the number of tokens
\* of the vocabulary that are lexicographically smaller); the indices are
\* exactly 1..n, token_to_idx and idx_to_token are inverse bijections, and every
\* other order of the same tokens yields the same two mappings.
C6_IndexIsLexicographicRank ==
    pc = "build_token_dict_done" =>
        LET tokens == Range(args.vocab)
            n == Cardinality(tokens)
        IN  /\ DOMAIN ret.token_to_idx = tokens
            /\ DOMAIN ret.idx_to_token = 1..n
            /\ \A t \in tokens :
                  /\ ret.token_to_idx[t] = 1 + Cardinality({u \in tokens : StrLess(u, t)})
                  /\ ret.token_to_idx[t] \in 1..n
                  /\ ret.idx_to_token[ret.token_to_idx[t]] = t
            /\ \A i \in 1..n : ret.token_to_idx[ret.idx_to_token[i]] = i
            /\ \A l \in ListsOf(tokens, n) :
                  Range(l) = tokens => build_token_dict(l) = ret

\* Three tokens given in descending order, one a proper prefix of another.
C6_Witness ==
    /\ pc = "build_token_dict_done"
    /\ Len(args.vocab) = 3
    /\ StrLess(args.vocab[3], args.vocab[2]) /\ StrLess(args.vocab[2], args.vocab[1])
    /\ \E t \in Range(args.vocab) : <<1>> \o t \in Range(args.vocab) \/ t \o <<1>> \in Range(args.vocab)
    /\ ret.token_to_idx[args.vocab[1]] = 3

-----------------------------------------------------------------------------
(* encode_splits, and the options main() builds for it *)

\* The values of --train_frac and --val_frac of the model, as quotients;
\* 7/10 is the default of both.
Fracs == {<<0, 1>>, <<3, 10>>, <<1, 2>>, <<7, 10>>, <<9, 10>>, <<1, 1>>}

\* int(len(obj_data) * frac)
IntOfProduct(n, frac) == (n * frac[1]) \div frac[2]

\* opt of main(): None (here [none |-> TRUE]) under --use_input_split.
SplitOpt(a) ==
    IF a.use_input_split THEN [none |-> TRUE]
    ELSE [none |-> FALSE,
          val_begin_idx |-> IntOfProduct(Len(a.obj_data), a.train_frac),
          test_begin_idx |-> IntOfProduct(Len(a.obj_data), a.val_frac),
          shuffle |-> a.shuffle]

\* The sequences that hold c0 zeros, c1 ones and c2 twos.
RECURSIVE Arrangements(_, _, _)
Arrangements(c0, c1, c2) ==
    IF c0 + c1 + c2 = 0 THEN {<<>>}
    ELSE (IF c0 > 0 THEN {<<0>> \o q : q \in Arrangements(c0 - 1, c1, c2)} ELSE {})
         \cup (IF c1 > 0 THEN {<<1>> \o q : q \in Arrangements(c0, c1 - 1, c2)} ELSE {})
         \cup (IF c2 > 0 THEN {<<2>> \o q : q \in Arrangements(c0, c1, c2 - 1)} ELSE {})

Count(q, v) == Cardinality({k \in 1..Len(q) : q[k] = v})

\* The outcomes of np.random.shuffle(split): the permutations of split.
Shuffled(split) == Arrangements(Count(split, 0), Count(split, 1), Count(split, 2))

\* A variant of SplitBeforeShuffle that tests i > val_begin_idx.
SplitBeforeShuffle_OffByOne(infos, opt) ==
    [k \in 1..Len(infos) |->
        LET i == k - 1
        IN  IF opt.none
            THEN IF infos[k].split = "test" THEN 2
                 ELSE IF infos[k].split = "val" THEN 1
                 ELSE 0
            ELSE IF i >= opt.test_begin_idx THEN 2
                 ELSE IF i > opt.val_begin_idx THEN 1
                 ELSE 0]

\* The array split at the end of the loop of encode_splits; image i of Python
\* is the element i + 1 of the sequence.
SplitBeforeShuffle(infos, opt) ==
    [k \in 1..Len(infos) |->
        LET i == k - 1
        IN  IF opt.none
            THEN IF infos[k].split = "test" THEN 2
                 ELSE IF infos[k].split = "val" THEN 1
                 ELSE 0
            ELSE IF i >= opt.test_begin_idx THEN 2
                 ELSE IF i >= opt.val_begin_idx THEN 1
                 ELSE 0]

\* The return values of encode_splits.
encode_splits(infos, opt) ==
    LET split == SplitBeforeShuffle(infos, opt)
    IN  IF ~opt.none /\ opt.shuffle THEN Shuffled(split) ELSE {split}

-----------------------------------------------------------------------------
(* SpecSplit: main()'s options and encode_splits on one image list *)

\* Image lists whose images carry a split, as --use_input_split needs.
LabelledImages == UNION {[1..n -> [split : {"train", "val", "test"}]] : n \in 0..MaxLabelled}

\* Image lists as create_from_xml builds them: no image carries a split.
UnlabelledImages == {[k \in 1..n |-> [split |-> "none"]] : n \in 0..MaxSplitImages}

InitSplit ==
    /\ pc = "encode_splits"
    /\ args \in [obj_data : LabelledImages, use_input_split : {TRUE},
                 train_frac : {<<7, 10>>}, val_frac : {<<7, 10>>}, shuffle : {FALSE}]
            \cup [obj_data : UnlabelledImages, use_input_split : {FALSE},
                  train_frac : Fracs, val_frac : Fracs, shuffle : BOOLEAN]
    /\ ret = Idle
    /\ obj_data = Idle /\ rel_data = Idle /\ merge = Idle
    /\ vocab = Idle /\ enc_obj = Idle /\ enc_rel = Idle

CallEncodeSplits ==
    /\ pc = "encode_splits"
    /\ \E split \in encode_splits(args.obj_data, SplitOpt(args)) : ret' = split
    /\ pc' = "encode_splits_done"
    /\ UNCHANGED <<args, obj_data, rel_data, merge, vocab, enc_obj, enc_rel>>

SpecSplit == InitSplit /\ [][CallEncodeSplits]_vars

\* The positional mode without shuffle has returned.
PositionalDone == pc = "encode_splits_done" /\ ~args.use_input_split /\ ~args.shuffle

\* C10 (as stated): in positional mode without shuffle, image i gets 0 exactly
\* when i < val_begin_idx, 1 exactly when val_begin_idx <= i < test_begin_idx
\* and 2 exactly when i >= test_begin_idx; every value is 0, 1 or 2; for N = 10
\* and train_frac = 0.7 exactly the first 7 images are train.
C10_AsStated ==
    PositionalDone =>
        LET N == Len(args.obj_data)
            val_begin_idx == IntOfProduct(N, args.train_frac)
            test_begin_idx == IntOfProduct(N, args.val_frac)
        IN  /\ Len(ret) = N
            /\ \A i \in 0..(N - 1) :
                  /\ ret[i + 1] \in {0, 1, 2}
                  /\ ret[i + 1] = 0 <=> i < val_begin_idx
                  /\ ret[i + 1] = 1 <=> (val_begin_idx <= i /\ i < test_begin_idx)
                  /\ ret[i + 1] = 2 <=> i >= test_begin_idx
            /\ (N = 10 /\ args.train_frac = <<7, 10>>)
                  => {i \in 0..(N - 1) : ret[i + 1] = 0} = 0..6

\* C10 (amended): in positional mode without shuffle, image i gets 0 exactly
\* when i is below both val_begin_idx and test_begin_idx, 1 exactly when
\* val_begin_idx <= i < test_begin_idx and 2 exactly when i >= test_begin_idx;
\* every value is 0, 1 or 2 and the result is a function of N and the two
\* fractions; for N = 10 and train_frac = 0.7 the train images are the first
\* min(7, test_begin_idx), so the first 7 whenever val_frac >= 0.7.
C10_PositionalSplit ==
    PositionalDone =>
        LET N == Len(args.obj_data)
            val_begin_idx == IntOfProduct(N, args.train_frac)
            test_begin_idx == IntOfProduct(N, args.val_frac)
        IN  /\ Len(ret) = N
            /\ \A i \in 0..(N - 1) :
                  /\ ret[i + 1] \in {0, 1, 2}
                  /\ ret[i + 1] = 0 <=> (i < val_begin_idx /\ i < test_begin_idx)
                  /\ ret[i + 1] = 1 <=> (val_begin_idx <= i /\ i < test_begin_idx)
                  /\ ret[i + 1] = 2 <=> i >= test_begin_idx
            /\ (N = 10 /\ args.train_frac = <<7, 10>>)
                  => /\ val_begin_idx = 7
                     /\ {i \in 0..(N - 1) : ret[i + 1] = 0} = 0..(Min(7, test_begin_idx) - 1)

\* Ten images split 0.7 / 0.9 without shuffle: seven train, two val, one test.
C10_Witness ==
    /\ PositionalDone
    /\ Len(args.obj_data) = 10
    /\ args.train_frac = <<7, 10>> /\ args.val_frac = <<9, 10>>
    /\ ret = <<0, 0, 0, 0, 0, 0, 0, 1, 1, 2>>

-----------------------------------------------------------------------------
(* Spec, the pipeline of main(): create_from_xml *)

\* The object names and the predicates of the XML files: "a", "b"; "ab", "ba".
XmlNames == {<<1>>, <<2>>}

XmlPredicates == {<<1, 2>>, <<2, 1>>}

\* The boxes of the XML files as x, y, w, h: a large box, a box inside it,
\* and a box below the area threshold of filter_object_boxes.
XmlBoxes == {[x |-> 1, y |-> 1, w |-> 4, h |-> 4],
             [x |-> 2, y |-> 2, w |-> 3, h |-> 3],
             [x |-> 1, y |-> 1, w |-> 1, h |-> 1]}

\* The object_id of the k-th object of an image: unique within the image.
XmlObjectId(k) == 10 + k

\* The relations of the XML files: between the first two objects, of the first
\* object with itself, and between the second and the third object.
XmlRelations ==
    {[subject |-> [object_id |-> XmlObjectId(1)], object |-> [object_id |-> XmlObjectId(2)], predicate |-> <<1, 2>>],
     [subject |-> [object_id |-> XmlObjectId(1)], object |-> [object_id |-> XmlObjectId(2)], predicate |-> <<2, 1>>],
     [subject |-> [object_id |-> XmlObjectId(1)], object |-> [object_id |-> XmlObjectId(1)], predicate |-> <<1, 2>>],
     [subject |-> [object_id |-> XmlObjectId(2)], object |-> [object_id |-> XmlObjectId(3)], predicate |-> <<1, 2>>]}

RECURSIVE SumSeq(_)
SumSeq(q) == IF q = <<>> THEN 0 ELSE q[1] + SumSeq(Tail(q))

\* The images, objects and relations read so far.
Items ==
    Len(obj_data)
    + SumSeq([i \in 1..Len(obj_data) |-> Len(obj_data[i].objects)])
    + SumSeq([i \in 1..Len(rel_data) |-> Len(rel_data[i].relationships)])

\* An object as create_from_xml appends it.  The keys merge_duplicate_boxes
\* adds later are present from the start: ids and mobjs empty, M_TYPE 0 for
\* "no such key".
XmlObjectRecord(box, name, object_id) ==
    [x |-> box.x, y |-> box.y, w |-> box.w, h |-> box.h,
     object_id |-> object_id, names |-> <<name>>,
     ids |-> <<>>, M_TYPE |-> 0, mobjs |-> <<>>]

Init ==
    /\ pc = "create_from_xml"
    /\ args = Idle /\ ret = Idle
    /\ obj_data = <<>> /\ rel_data = <<>>
    /\ merge = Idle
    /\ vocab = Idle /\ enc_obj = Idle /\ enc_rel = Idle

\* for im in img_data: one more image, with no objects and no relationships yet.
XmlImage ==
    /\ pc = "create_from_xml"
    /\ Items < MaxItems
    /\ obj_data' = Append(obj_data, [objects |-> <<>>, id_to_idx |-> <<>>])
    /\ rel_data' = Append(rel_data, [relationships |-> <<>>])
    /\ UNCHANGED <<pc, args, ret, merge, vocab, enc_obj, enc_rel>>

\* for child in root, child.tag == 'object'.
XmlObject ==
    /\ pc = "create_from_xml"
    /\ Items < MaxItems
    /\ Len(obj_data) > 0
    /\ \E box \in XmlBoxes, name \in XmlNames :
          LET last == Len(obj_data)
              o == XmlObjectRecord(box, name, XmlObjectId(Len(obj_data[last].objects) + 1))
          IN  obj_data' = [obj_data EXCEPT ![last].objects = Append(@, o)]
    /\ UNCHANGED <<pc, args, ret, rel_data, merge, vocab, enc_obj, enc_rel>>

\* for child in root, child.tag == 'relation'.
XmlRelation ==
    /\ pc = "create_from_xml"
    /\ Items < MaxItems
    /\ Len(rel_data) > 0
    /\ \E r \in XmlRelations :
          rel_data' = [rel_data EXCEPT ![Len(rel_data)].relationships = Append(@, r)]
    /\ UNCHANGED <<pc, args, ret, obj_data, merge, vocab, enc_obj, enc_rel>>

AllNames(data) == UNION {UNION {Range(o.names) : o \in Range(img.objects)} : img \in Range(data)}

AllPredicates(data) == UNION {{r.predicate : r \in Range(img.relationships)} : img \in Range(data)}

\* create_from_xml returns obj_list and pred_list, the names and the predicates it has seen.
XmlReturn ==
    /\ pc = "create_from_xml"
    /\ vocab' = [obj_list |-> AllNames(obj_data), pred_list |-> AllPredicates(rel_data)]
    /\ pc' = "sync_objects"
    /\ UNCHANGED <<args, ret, obj_data, rel_data, merge, enc_obj, enc_rel>>

-----------------------------------------------------------------------------
(* sync_objects, obj_rel_cross_check and filter_object_boxes *)

ObjectIds(img) == {o.object_id : o \in Range(img.objects)}

\* The relations of image i with an end that is no object of the image.
Unsynced(i) ==
    {r \in Range(rel_data[i].relationships) :
        r.subject.object_id \notin ObjectIds(obj_data[i]) \/ r.object.object_id \notin ObjectIds(obj_data[i])}

\* sync_objects appends the missing end of a relation to the objects, reading
\* its key 'name': the ends create_from_xml builds hold an object_id only,
\* and the read raises KeyError.  obj_rel_cross_check only prints.
SyncObjects ==
    /\ pc = "sync_objects"
    /\ pc' = IF \E i \in 1..Len(obj_data) : Unsynced(i) # {}
             THEN "KeyError" ELSE "filter_object_boxes"
    /\ UNCHANGED <<args, ret, obj_data, rel_data, merge, vocab, enc_obj, enc_rel>>

\* --min_box_area_frac, 0.002 by default, as a quotient.
min_box_area_frac == <<2, 1000>>

\* float(obj['h'] * obj['w']) > area * area_frac_thresh
AboveAreaThreshold(obj) ==
    obj.h * obj.w * min_box_area_frac[2] > OrgHeight * OrgWidth * min_box_area_frac[1]

FilterObjectBoxes ==
    /\ pc = "filter_object_boxes"
    /\ obj_data' = [i \in 1..Len(obj_data) |->
                       [obj_data[i] EXCEPT !.objects = SelectSeq(@, AboveAreaThreshold)]]
    /\ pc' = "merge_duplicate_boxes"
    /\ UNCHANGED <<args, ret, rel_data, merge, vocab, enc_obj, enc_rel>>

-----------------------------------------------------------------------------
(* merge_duplicate_boxes *)

\* A variant of MarkPartners that also takes a partner another seed has taken.
RECURSIVE MarkPartners_NoSkip(_, _, _)
MarkPartners_NoSkip(objs, i, j) ==
    IF j > Len(objs) THEN objs
    ELSE LET overlap_type == overlap(objs[i], objs[j])
         IN  IF overlap_type > 0
             THEN MarkPartners_NoSkip([objs EXCEPT ![j].M_TYPE = overlap_type,
                                                   ![i].mobjs = Append(@, j)], i, j + 1)
             ELSE MarkPartners_NoSkip(objs, i, j + 1)

\* The inner loop, for j in range(i+1, num_obj), from j on: the partners of the
\* seed i get their M_TYPE, and mobjs of the seed lists them (by position).
RECURSIVE MarkPartners(_, _, _)
MarkPartners(objs, i, j) ==
    IF j > Len(objs) THEN objs
    ELSE IF objs[j].M_TYPE # 0 THEN MarkPartners(objs, i, j + 1)
    ELSE LET overlap_type == overlap(objs[i], objs[j])
         IN  IF overlap_type > 0
             THEN MarkPartners([objs EXCEPT ![j].M_TYPE = overlap_type,
                                            ![i].mobjs = Append(@, j)], i, j + 1)
             ELSE MarkPartners(objs, i, j + 1)

\* The outer loop, for i in range(num_obj), from i on.
RECURSIVE MarkObjects(_, _)
MarkObjects(objs, i) ==
    IF i > Len(objs) THEN objs
    ELSE IF objs[i].M_TYPE # 0 THEN MarkObjects(objs, i + 1)
    ELSE MarkObjects(MarkPartners(objs, i, i + 1), i + 1)

\* int(a/n) of Python: the quotient cut towards zero.
Trunc(a, n) == IF a >= 0 THEN a \div n ELSE 0 - ((0 - a) \div n)

\* Whether the float a/n is the exact quotient.
ExactQuotient(a, n) == a % n = 0 \/ n \in {1, 2, 4, 8, 16, 32}

\* int(mdims[2] - mdims[0]) for the means s2/n and s0/n: where the two float
\* means are rounded and their exact difference is an integer, the float
\* difference may fall on either side of it.
MeanExtents(s2, s0, n) ==
    LET d == Trunc(s2 - s0, n)
    IN  IF (s2 - s0) % n # 0 \/ (ExactQuotient(s2, n) /\ ExactQuotient(s0, n)) THEN {d}
        ELSE IF d > 0 THEN {d - 1, d}
        ELSE IF d < 0 THEN {d, d + 1}
        ELSE {d}

MinOf(S) == CHOOSE v \in S : \A u \in S : v <= u

MaxOf(S) == CHOOSE v \in S : \A u \in S : v >= u

\* The x, y, w, h a seed gets from dims, its own rectangle and its partners'.
MergedBoxes(dims, prominent_type) ==
    LET n == Len(dims)
        col(k) == [r \in 1..n |-> dims[r][k]]
    IN  IF prominent_type > 1
        THEN {[x |-> MinOf(Range(col(1))), y |-> MinOf(Range(col(2))),
               w |-> MaxOf(Range(col(3))) - MinOf(Range(col(1))),
               h |-> MaxOf(Range(col(4))) - MinOf(Range(col(2)))]}
        ELSE {[x |-> Trunc(SumSeq(col(1)), n), y |-> Trunc(SumSeq(col(2)), n), w |-> w, h |-> h] :
                 w \in MeanExtents(SumSeq(col(3)), SumSeq(col(1)), n),
                 h \in MeanExtents(SumSeq(col(4)), SumSeq(col(2)), n)}

RECURSIVE Concat(_)
Concat(qs) == IF qs = <<>> THEN <<>> ELSE qs[1] \o Concat(Tail(qs))

\* list(S) for a Python set S: its elements in any order.
ListsOfSet(S) == {l \in ListsOf(S, Cardinality(S)) : Range(l) = S}

\* list(set(names)): the names without duplicates, in any order.
ListOfSet(names) == ListsOfSet(Range(names))

\* The body of "if 'M_TYPE' not in obj" for the seed at position k: the
\* objects the seed can become.
MergeSeed(objs, k) ==
    LET obj == objs[k]
        mobjs == [r \in 1..Len(obj.mobjs) |-> objs[obj.mobjs[r]]]
        ids == <<obj.object_id>> \o [r \in 1..Len(mobjs) |-> mobjs[r].object_id]
        names == obj.names \o Concat([r \in 1..Len(mobjs) |-> mobjs[r].names])
        dims == <<to_x1y1x2y2(obj)>> \o [r \in 1..Len(mobjs) |-> to_x1y1x2y2(mobjs[r])]
        prominent_type == MaxOf({1} \cup {mobjs[r].M_TYPE : r \in 1..Len(mobjs)})
    IN  {[obj EXCEPT !.ids = ids, !.names = l, !.mobjs = <<>>,
                     !.x = b.x, !.y = b.y, !.w = b.w, !.h = b.h] :
            l \in ListOfSet(names), b \in MergedBoxes(dims, prominent_type)}

\* The loop "for obj in objs" from position k on: the lists filtered_objs can be.
RECURSIVE FilteredObjs(_, _)
FilteredObjs(objs, k) ==
    IF k > Len(objs) THEN {<<>>}
    ELSE IF objs[k].M_TYPE # 0 THEN FilteredObjs(objs, k + 1)
    ELSE {<<o>> \o rest : o \in MergeSeed(objs, k), rest \in FilteredObjs(objs, k + 1)}

\* num_merged[prominent_type] += len(obj['mobjs']), over the seeds of objs.
NumMerged(objs, num_merged) ==
    [t \in 1..3 |->
        num_merged[t] + SumSeq([k \in 1..Len(objs) |->
            IF objs[k].M_TYPE = 0
               /\ MaxOf({1} \cup {objs[objs[k].mobjs[r]].M_TYPE : r \in 1..Len(objs[k].mobjs)}) = t
            THEN Len(objs[k].mobjs) ELSE 0])]

MergeBegin ==
    /\ pc = "merge_duplicate_boxes"
    /\ merge' = [num_merged |-> <<0, 0, 0>>, imgs |-> <<>>]
    /\ pc' = "merge_image"
    /\ UNCHANGED <<args, ret, obj_data, rel_data, vocab, enc_obj, enc_rel>>

\* One pass of "for img in data": the image is marked, merged and checked.
MergeImage ==
    /\ pc = "merge_image"
    /\ Len(merge.imgs) < Len(obj_data)
    /\ LET i == Len(merge.imgs) + 1
           num_obj == Len(obj_data[i].objects)
           objs == MarkObjects(obj_data[i].objects, 1)
       IN  \E filtered_objs \in FilteredObjs(objs, 1) :
              LET merged_num_obj == SumSeq([k \in 1..Len(filtered_objs) |-> Len(filtered_objs[k].ids)])
              IN  /\ obj_data' = [obj_data EXCEPT ![i].objects = filtered_objs]
                  /\ merge' = [num_merged |-> NumMerged(objs, merge.num_merged),
                               imgs |-> Append(merge.imgs,
                                   [objs |-> objs, num_obj |-> num_obj,
                                    merged_num_obj |-> merged_num_obj])]
                  /\ pc' = IF merged_num_obj = num_obj THEN "merge_image" ELSE "AssertionError"
    /\ UNCHANGED <<args, ret, rel_data, vocab, enc_obj, enc_rel>>

MergeReturn ==
    /\ pc = "merge_image"
    /\ Len(merge.imgs) = Len(obj_data)
    /\ pc' = "extract_object_token"
    /\ UNCHANGED <<args, ret, obj_data, rel_data, merge, vocab, enc_obj, enc_rel>>

\* C1: after merge_duplicate_boxes has processed an image, the sum of len(ids)
\* over its surviving objects is the number of objects it had before: every
\* original object is a surviving seed or a partner absorbed by exactly one
\* seed, none dropped and none twice.
C1_MergeConservesObjects ==
    merge # Idle =>
        \A i \in 1..Len(merge.imgs) :
            LET objs == merge.imgs[i].objs
                survivors == obj_data[i].objects
                all_ids == Concat([k \in 1..Len(survivors) |-> survivors[k].ids])
            IN  /\ SumSeq([k \in 1..Len(survivors) |-> Len(survivors[k].ids)]) = merge.imgs[i].num_obj
                /\ Len(objs) = merge.imgs[i].num_obj
                /\ \A k \in 1..Len(objs) :
                      Cardinality({r \in 1..Len(all_ids) : all_ids[r] = objs[k].object_id}) = 1
                /\ \A k \in 1..Len(survivors) : survivors[k].ids[1] = survivors[k].object_id
                /\ {survivors[k].object_id : k \in 1..Len(survivors)}
                      = {objs[k].object_id : k \in {r \in 1..Len(objs) : objs[r].M_TYPE = 0}}

\* Three objects, the third of which overlaps both the first and the second
\* while these two do not merge: the first seed alone absorbs it.
C1_Witness ==
    /\ pc = "merge_image"
    /\ Len(merge.imgs) >= 1
    /\ merge.imgs[1].num_obj = 3
    /\ overlap(merge.imgs[1].objs[1], merge.imgs[1].objs[2]) = 0
    /\ overlap(merge.imgs[1].objs[1], merge.imgs[1].objs[3]) > 0
    /\ overlap(merge.imgs[1].objs[2], merge.imgs[1].objs[3]) > 0
    /\ Len(obj_data[1].objects) = 2
    /\ obj_data[1].objects[1].ids = <<XmlObjectId(1), XmlObjectId(3)>>
    /\ obj_data[1].objects[2].ids = <<XmlObjectId(2)>>

-----------------------------------------------------------------------------
(* SpecMerge: merge_duplicate_boxes on one image of wide boxes *)

\* Boxes of height 1 on one line: three that cover one another by more than
\* 0.9 without being equal, one inside the first, one that covers 13/19 of the
\* bounding box it has with the first, and one apart from all of them.
MergeBoxes == {[x |-> 0, y |-> 0, w |-> 16, h |-> 1],
               [x |-> 0, y |-> 0, w |-> 17, h |-> 1],
               [x |-> 1, y |-> 0, w |-> 15, h |-> 1],
               [x |-> 2, y |-> 0, w |-> 4, h |-> 1],
               [x |-> 3, y |-> 0, w |-> 16, h |-> 1],
               [x |-> 20, y |-> 0, w |-> 2, h |-> 1]}

\* data of merge_duplicate_boxes: one image, its objects with one name each.
MergeInputs ==
    UNION {[1..n -> [box : MergeBoxes, name : XmlNames]] : n \in 0..MaxMergeObjects}

InitMerge ==
    /\ pc = "merge_duplicate_boxes"
    /\ \E input \in MergeInputs :
          obj_data = <<[objects |-> [k \in 1..Len(input) |->
                                        XmlObjectRecord(input[k].box, input[k].name, XmlObjectId(k))],
                        id_to_idx |-> <<>>]>>
    /\ rel_data = <<[relationships |-> <<>>]>>
    /\ args = Idle /\ ret = Idle /\ merge = Idle
    /\ vocab = Idle /\ enc_obj = Idle /\ enc_rel = Idle

NextMerge ==
    \/ MergeBegin
    \/ MergeImage
    \/ MergeReturn

SpecMerge == InitMerge /\ [][NextMerge]_vars

\* The object of image i that had the id before the merge.
OriginalObject(i, id) ==
    LET objs == merge.imgs[i].objs
    IN  objs[CHOOSE k \in 1..Len(objs) : objs[k].object_id = id]

\* The rectangles <<x1, y1, x2, y2>> that contribute to the survivor s of
\* image i: its own before the merge, then those of the partners it absorbed.
ContributingRectangles(i, s) ==
    [r \in 1..Len(s.ids) |->
        LET o == OriginalObject(i, s.ids[r])
        IN  <<o.x, o.y, o.x + o.w, o.y + o.h>>]

\* The categories of the partners that the survivor s of image i absorbed.
AbsorbedCategories(i, s) ==
    {overlap(OriginalObject(i, s.ids[1]), OriginalObject(i, s.ids[r])) : r \in 2..Len(s.ids)}

\* The box of s is the bounding union of the rectangles.
IsBoundingUnion(s, rects) ==
    LET n == Len(rects)
        x1 == MinOf({rects[r][1] : r \in 1..n})
        y1 == MinOf({rects[r][2] : r \in 1..n})
        x2 == MaxOf({rects[r][3] : r \in 1..n})
        y2 == MaxOf({rects[r][4] : r \in 1..n})
    IN  s.x = x1 /\ s.y = y1 /\ s.w = x2 - x1 /\ s.h = y2 - y1

\* The box of s is the coordinate-wise mean of the rectangles, as integers:
\* x and y the whole part of the mean x1 and y1, w and h the whole part of the
\* mean x2 less the mean x1 and of the mean y2 less the mean y1.  The
\* coordinates are not negative.
IsMean(s, rects) ==
    LET n == Len(rects)
        sum(c) == SumSeq([r \in 1..n |-> rects[r][c]])
    IN  /\ s.x = sum(1) \div n
        /\ s.y = sum(2) \div n
        /\ s.w = (sum(3) - sum(1)) \div n
        /\ s.h = (sum(4) - sum(2)) \div n

\* C12: the final box of every surviving seed is computed from its own
\* original rectangle and those of the partners it absorbed: the bounding
\* union if a partner was classified 2 or 3, the coordinate-wise mean if
\* every partner was classified 1, and its own box if it absorbed nothing.
C12_MergedBoxIsUnionOrMean ==
    merge # Idle =>
        \A i \in 1..Len(merge.imgs) : \A k \in 1..Len(obj_data[i].objects) :
            LET s == obj_data[i].objects[k]
                rects == ContributingRectangles(i, s)
                own == OriginalObject(i, s.object_id)
            IN  IF Len(s.ids) = 1
                THEN s.x = own.x /\ s.y = own.y /\ s.w = own.w /\ s.h = own.h
                ELSE IF AbsorbedCategories(i, s) \cap {2, 3} # {}
                THEN IsBoundingUnion(s, rects)
                ELSE IsMean(s, rects)

-----------------------------------------------------------------------------
(* extract_object_token, extract_predicate_token and the dictionaries of main() *)

\* Counter.update([token]) over the tokens of occurrences that the list admits;
\* an empty list admits every token.  The return value: the set tokens and the
\* dict token_counter_return.
CountTokens(occurrences, token_list) ==
    LET counted == SelectSeq(occurrences, LAMBDA t : token_list = {} \/ t \in token_list)
    IN  [tokens |-> Range(counted),
         token_counter |-> [t \in Range(counted) |->
                               Cardinality({k \in 1..Len(counted) : counted[k] = t})]]

extract_object_token(data, obj_list) ==
    CountTokens(Concat([i \in 1..Len(data) |->
                    Concat([k \in 1..Len(data[i].objects) |-> data[i].objects[k].names])]),
                obj_list)

extract_predicate_token(data, pred_list) ==
    CountTokens(Concat([i \in 1..Len(data) |->
                    [k \in 1..Len(data[i].relationships) |-> data[i].relationships[k].predicate]]),
                pred_list)

\* The lists an object or predicate list can be besides the one create_from_xml
\* returns: extract_object_token and extract_predicate_token admit any list.
ExternalObjLists == {{<<1>>}, {<<2>>}}

ExternalPredLists == {{<<1, 2>>}}

\* main(): object_tokens, object_token_counter, label_to_idx, idx_to_label.
ObjectVocabulary ==
    /\ pc = "extract_object_token"
    /\ \E obj_list \in {vocab.obj_list} \cup ExternalObjLists :
          LET e == extract_object_token(obj_data, obj_list)
          IN  \E l \in ListsOfSet(e.tokens) :
                 LET d == build_token_dict(l)
                 IN  vocab' = [obj_list |-> obj_list, pred_list |-> vocab.pred_list,
                               object_tokens |-> e.tokens,
                               object_token_counter |-> e.token_counter,
                               label_to_idx |-> d.token_to_idx,
                               idx_to_label |-> d.idx_to_token]
    /\ pc' = "extract_predicate_token"
    /\ UNCHANGED <<args, ret, obj_data, rel_data, merge, enc_obj, enc_rel>>

\* main(): predicate_tokens, predicate_token_counter, predicate_to_idx, idx_to_predicate.
PredicateVocabulary ==
    /\ pc = "extract_predicate_token"
    /\ \E pred_list \in {vocab.pred_list} \cup ExternalPredLists :
          LET e == extract_predicate_token(rel_data, pred_list)
          IN  \E l \in ListsOfSet(e.tokens) :
                 LET d == build_token_dict(l)
                 IN  vocab' = [obj_list |-> vocab.obj_list, pred_list |-> pred_list,
                               object_tokens |-> vocab.object_tokens,
                               object_token_counter |-> vocab.object_token_counter,
                               label_to_idx |-> vocab.label_to_idx,
                               idx_to_label |-> vocab.idx_to_label,
                               predicate_tokens |-> e.tokens,
                               predicate_token_counter |-> e.token_counter,
                               predicate_to_idx |-> d.token_to_idx,
                               idx_to_predicate |-> d.idx_to_token]
    /\ pc' = "encode_objects"
    /\ UNCHANGED <<args, ret, obj_data, rel_data, merge, enc_obj, enc_rel>>

-----------------------------------------------------------------------------
(* encode_objects *)

img_long_sizes == <<512, 1024>>

\* obj_label = None
None == <<>>

\* A variant of PickLabel that keeps the first name of the dictionary it meets.
RECURSIVE PickLabel_FirstFound(_, _, _, _, _, _)
PickLabel_FirstFound(names, k, obj_label, max_occur, token_to_idx, token_counter) ==
    IF k > Len(names) THEN obj_label
    ELSE IF names[k] \in DOMAIN token_to_idx /\ obj_label = <<>>
         THEN PickLabel_FirstFound(names, k + 1, names[k], token_counter[names[k]], token_to_idx, token_counter)
         ELSE PickLabel_FirstFound(names, k + 1, obj_label, max_occur, token_to_idx, token_counter)

\* The loop "for name in obj['names']" from position k on.
RECURSIVE PickLabel(_, _, _, _, _, _)
PickLabel(names, k, obj_label, max_occur, token_to_idx, token_counter) ==
    IF k > Len(names) THEN obj_label
    ELSE IF names[k] \in DOMAIN token_to_idx /\ token_counter[names[k]] > max_occur
         THEN PickLabel(names, k + 1, names[k], token_counter[names[k]], token_to_idx, token_counter)
         ELSE PickLabel(names, k + 1, obj_label, max_occur, token_to_idx, token_counter)

\* The results encode_box can return for obj and one size.
EncodeBoxResults(obj, org_h, org_w, im_long_size) ==
    {encode_box(obj, org_h, org_w, im_long_size, rnd) :
        rnd \in Roundings(obj, org_h, org_w, im_long_size)}

\* The lists of results encode_box can return for obj, one for every size.
EncodedBoxes(obj, org_h, org_w) ==
    {f \in [1..Len(img_long_sizes) ->
               UNION {EncodeBoxResults(obj, org_h, org_w, img_long_sizes[s]) : s \in 1..Len(img_long_sizes)}] :
        \A s \in 1..Len(img_long_sizes) : f[s] \in EncodeBoxResults(obj, org_h, org_w, img_long_sizes[s])}

\* A variant of EncodeObject that enters only the object's own id in id_to_idx.
EncodeObject_OwnIdOnly(st, obj, obj_label, boxes, token_to_idx) ==
    IF \E s \in 1..Len(boxes) : boxes[s].AssertionError
    THEN [st EXCEPT !.AssertionError = TRUE]
    ELSE [st EXCEPT
            !.encoded_boxes = [s \in 1..Len(boxes) |-> Append(st.encoded_boxes[s], boxes[s].box)],
            !.encoded_labels = Append(@, token_to_idx[obj_label]),
            !.id_to_idx = [id \in DOMAIN st.id_to_idx \cup {obj.object_id} |->
                              IF id = obj.object_id THEN st.obj_counter ELSE st.id_to_idx[id]],
            !.obj_counter = @ + 1]

\* The body of "if obj_label is not None" for one object and its encoded boxes.
EncodeObject(st, obj, obj_label, boxes, token_to_idx) ==
    IF \E s \in 1..Len(boxes) : boxes[s].AssertionError
    THEN [st EXCEPT !.AssertionError = TRUE]
    ELSE [st EXCEPT
            !.encoded_boxes = [s \in 1..Len(boxes) |-> Append(st.encoded_boxes[s], boxes[s].box)],
            !.encoded_labels = Append(@, token_to_idx[obj_label]),
            !.id_to_idx = [id \in DOMAIN st.id_to_idx \cup Range(obj.ids) |->
                              IF id \in Range(obj.ids) THEN st.obj_counter ELSE st.id_to_idx[id]],
            !.obj_counter = @ + 1]

\* The loop "for obj in img['objects']" from position k on: the states it can end in.
RECURSIVE EncodeObjectsFrom(_, _, _, _, _, _, _)
EncodeObjectsFrom(st, objs, k, token_to_idx, token_counter, org_h, org_w) ==
    IF k > Len(objs) \/ st.AssertionError THEN {st}
    ELSE LET obj_label == PickLabel(objs[k].names, 1, None, 0, token_to_idx, token_counter)
         IN  IF obj_label = None
             THEN EncodeObjectsFrom(st, objs, k + 1, token_to_idx, token_counter, org_h, org_w)
             ELSE UNION {EncodeObjectsFrom(EncodeObject(st, objs[k], obj_label, boxes, token_to_idx),
                                           objs, k + 1, token_to_idx, token_counter, org_h, org_w) :
                            boxes \in EncodedBoxes(objs[k], org_h, org_w)}

\* A variant of CsrRange without the sentinel: an image without rows gets an empty range.
CsrRange_NoSentinel(first, counter) == <<first, counter - 1>>

\* A variant of CsrRange whose last index is the counter itself.
CsrRange_LastExclusive(first, counter) ==
    IF first = counter THEN <<0 - 1, 0 - 1>> ELSE <<first, counter>>

\* The range of an image whose rows began at first, the counter now at counter.
CsrRange(first, counter) == IF first = counter THEN <<0 - 1, 0 - 1>> ELSE <<first, counter - 1>>

EncodeObjectsBegin ==
    /\ pc = "encode_objects"
    /\ enc_obj' = [encoded_labels |-> <<>>,
                   encoded_boxes |-> [s \in 1..Len(img_long_sizes) |-> <<>>],
                   im_to_first_obj |-> [i \in 1..Len(obj_data) |-> 0],
                   im_to_last_obj |-> [i \in 1..Len(obj_data) |-> 0],
                   obj_counter |-> 0,
                   i |-> 0]
    /\ pc' = "encode_objects_image"
    /\ UNCHANGED <<args, ret, obj_data, rel_data, merge, vocab, enc_rel>>

\* One pass of "for i, img in enumerate(obj_data)".
EncodeObjectsImage ==
    /\ pc = "encode_objects_image"
    /\ enc_obj.i < Len(obj_data)
    /\ LET i == enc_obj.i + 1
           first == enc_obj.obj_counter
           st0 == [encoded_labels |-> enc_obj.encoded_labels,
                   encoded_boxes |-> enc_obj.encoded_boxes,
                   obj_counter |-> enc_obj.obj_counter,
                   id_to_idx |-> <<>>,
                   AssertionError |-> FALSE]
       IN  \E st \in EncodeObjectsFrom(st0, obj_data[i].objects, 1, vocab.label_to_idx,
                                       vocab.object_token_counter, OrgHeight, OrgWidth) :
              LET range == CsrRange(first, st.obj_counter)
              IN  /\ obj_data' = [obj_data EXCEPT ![i].id_to_idx = st.id_to_idx]
                  /\ enc_obj' = [encoded_labels |-> st.encoded_labels,
                                 encoded_boxes |-> st.encoded_boxes,
                                 im_to_first_obj |-> [enc_obj.im_to_first_obj EXCEPT ![i] = range[1]],
                                 im_to_last_obj |-> [enc_obj.im_to_last_obj EXCEPT ![i] = range[2]],
                                 obj_counter |-> st.obj_counter,
                                 i |-> i]
                  /\ pc' = IF st.AssertionError THEN "AssertionError" ELSE "encode_objects_image"
    /\ UNCHANGED <<args, ret, rel_data, merge, vocab, enc_rel>>

\* np.vstack raises ValueError on an empty list: no object of any image was encoded.
EncodeObjectsReturn ==
    /\ pc = "encode_objects_image"
    /\ enc_obj.i = Len(obj_data)
    /\ pc' = IF enc_obj.encoded_labels = <<>> THEN "ValueError" ELSE "encode_relationships"
    /\ UNCHANGED <<args, ret, obj_data, rel_data, merge, vocab, enc_obj, enc_rel>>

-----------------------------------------------------------------------------
(* encode_relationships *)

encode_relationship(sub_id, obj_id, id_to_idx) == <<id_to_idx[sub_id], id_to_idx[obj_id]>>

\* A variant of RelationBranch that compares the two object ids, not their rows.
RelationBranch_CompareIds(relation, id_to_idx, token_to_idx) ==
    IF relation.subject.object_id \notin DOMAIN id_to_idx \/ relation.object.object_id \notin DOMAIN id_to_idx
    THEN "obj_filtered"
    ELSE IF relation.predicate \notin DOMAIN token_to_idx THEN "predicate_filtered"
    ELSE IF relation.subject.object_id = relation.object.object_id THEN "duplicate_filtered"
    ELSE "encoded"

\* The branch of the if / elif / elif / else that one relation takes.
RelationBranch(relation, id_to_idx, token_to_idx) ==
    IF relation.subject.object_id \notin DOMAIN id_to_idx \/ relation.object.object_id \notin DOMAIN id_to_idx
    THEN "obj_filtered"
    ELSE IF relation.predicate \notin DOMAIN token_to_idx THEN "predicate_filtered"
    ELSE IF id_to_idx[relation.subject.object_id] = id_to_idx[relation.object.object_id]
    THEN "duplicate_filtered"
    ELSE "encoded"

\* The loop "for relation in img['relationships']" from position k on.
RECURSIVE EncodeRelationshipsFrom(_, _, _, _, _)
EncodeRelationshipsFrom(st, relationships, k, id_to_idx, token_to_idx) ==
    IF k > Len(relationships) THEN st
    ELSE LET relation == relationships[k]
             branch == RelationBranch(relation, id_to_idx, token_to_idx)
             next == IF branch = "obj_filtered" THEN [st EXCEPT !.obj_filtered = @ + 1]
                     ELSE IF branch = "predicate_filtered" THEN [st EXCEPT !.predicate_filtered = @ + 1]
                     ELSE IF branch = "duplicate_filtered" THEN [st EXCEPT !.duplicate_filtered = @ + 1]
                     ELSE [st EXCEPT
                             !.encoded_pred = Append(@, token_to_idx[relation.predicate]),
                             !.encoded_rel = Append(@, encode_relationship(relation.subject.object_id,
                                                                           relation.object.object_id,
                                                                           id_to_idx)),
                             !.rel_idx_counter = @ + 1]
         IN  EncodeRelationshipsFrom(next, relationships, k + 1, id_to_idx, token_to_idx)

EncodeRelationshipsBegin ==
    /\ pc = "encode_relationships"
    /\ enc_rel' = [encoded_pred |-> <<>>,
                   encoded_rel |-> <<>>,
                   im_to_first_rel |-> [i \in 1..Len(rel_data) |-> 0],
                   im_to_last_rel |-> [i \in 1..Len(rel_data) |-> 0],
                   rel_idx_counter |-> 0,
                   no_rel_counter |-> 0,
                   obj_filtered |-> 0,
                   predicate_filtered |-> 0,
                   duplicate_filtered |-> 0,
                   i |-> 0]
    /\ pc' = "encode_relationships_image"
    /\ UNCHANGED <<args, ret, obj_data, rel_data, merge, vocab, enc_obj>>

\* One pass of "for i, img in enumerate(rel_data)".
EncodeRelationshipsImage ==
    /\ pc = "encode_relationships_image"
    /\ enc_rel.i < Len(rel_data)
    /\ LET i == enc_rel.i + 1
           first == enc_rel.rel_idx_counter
           st == EncodeRelationshipsFrom(enc_rel, rel_data[i].relationships, 1,
                                         obj_data[i].id_to_idx, vocab.predicate_to_idx)
           range == CsrRange(first, st.rel_idx_counter)
       IN  enc_rel' = [st EXCEPT !.im_to_first_rel[i] = range[1],
                                 !.im_to_last_rel[i] = range[2],
                                 !.no_rel_counter = IF first = st.rel_idx_counter THEN @ + 1 ELSE @,
                                 !.i = i]
    /\ UNCHANGED <<pc, args, ret, obj_data, rel_data, merge, vocab, enc_obj>>

\* np.vstack raises ValueError on an empty list: no relationship was encoded.
EncodeRelationshipsReturn ==
    /\ pc = "encode_relationships_image"
    /\ enc_rel.i = Len(rel_data)
    /\ pc' = IF enc_rel.encoded_pred = <<>> THEN "ValueError" ELSE "encode_splits"
    /\ UNCHANGED <<args, ret, obj_data, rel_data, merge, vocab, enc_obj, enc_rel>>

\* main(), "build train/val/test splits", with the fractions at their defaults:
\* the images that create_from_xml built carry no 'split', which
\* --use_input_split reads.
MainEncodeSplits ==
    /\ pc = "encode_splits"
    /\ \E use_input_split \in BOOLEAN, shuffle \in BOOLEAN :
          LET a == [obj_data |-> obj_data, use_input_split |-> use_input_split,
                    train_frac |-> <<7, 10>>, val_frac |-> <<7, 10>>, shuffle |-> shuffle]
          IN  /\ args' = [a EXCEPT !.obj_data = Idle]
              /\ IF use_input_split /\ Len(obj_data) > 0
                 THEN pc' = "KeyError" /\ ret' = ret
                 ELSE /\ pc' = "write_json"
                      /\ \E split \in encode_splits(obj_data, SplitOpt(a)) : ret' = split
    /\ UNCHANGED <<obj_data, rel_data, merge, vocab, enc_obj, enc_rel>>

-----------------------------------------------------------------------------
(* The pipeline *)

Next ==
    \/ XmlImage
    \/ XmlObject
    \/ XmlRelation
    \/ XmlReturn
    \/ SyncObjects
    \/ FilterObjectBoxes
    \/ MergeBegin
    \/ MergeImage
    \/ MergeReturn
    \/ ObjectVocabulary
    \/ PredicateVocabulary
    \/ EncodeObjectsBegin
    \/ EncodeObjectsImage
    \/ EncodeObjectsReturn
    \/ EncodeRelationshipsBegin
    \/ EncodeRelationshipsImage
    \/ EncodeRelationshipsReturn
    \/ MainEncodeSplits

Spec == Init /\ [][Next]_vars

-----------------------------------------------------------------------------
(* The claims about the pipeline *)

\* Whether one of the names of the object o is in the object dictionary.
HasVocabName(o) == \E name \in Range(o.names) : name \in DOMAIN vocab.label_to_idx

\* The objects of image i that have a name in the dictionary, in their order.
KeptObjects(i) == SelectSeq(obj_data[i].objects, HasVocabName)

\* The ids, original and absorbed, of the kept objects of image i.
KeptIds(i) == UNION {Range(KeptObjects(i)[k].ids) : k \in 1..Len(KeptObjects(i))}

\* The position among the kept objects of image i of the one that holds id.
KeptPosition(i, id) == CHOOSE k \in 1..Len(KeptObjects(i)) : id \in Range(KeptObjects(i)[k].ids)

\* Whether both ends of the relation r of image i belong to kept objects.
Resolvable(i, r) == r.subject.object_id \in KeptIds(i) /\ r.object.object_id \in KeptIds(i)

\* Whether the relation r of image i passes the three filters.
Encodable(i, r) ==
    /\ Resolvable(i, r)
    /\ r.predicate \in DOMAIN vocab.predicate_to_idx
    /\ KeptPosition(i, r.subject.object_id) # KeptPosition(i, r.object.object_id)

EncodableOf(i) == SelectSeq(rel_data[i].relationships, LAMBDA r : Encodable(i, r))

\* The number of rows every image has in the object array, in the relationship array.
ObjRows == [i \in 1..Len(obj_data) |-> Len(KeptObjects(i))]

RelRows == [i \in 1..Len(rel_data) |-> Len(EncodableOf(i))]

\* The loop of encode_objects, of encode_relationships, has passed over every image.
ObjectsEncoded == enc_obj # Idle /\ enc_obj.i = Len(obj_data)

RelationshipsEncoded == enc_rel # Idle /\ enc_rel.i = Len(rel_data)

\* Over the n images, with total rows in the flat array: an image holds the
\* sentinel exactly when it has no rows, and the ranges of the others cover
\* the rows 0..total-1 once each, in image order.
CsrPartition(first, last, rows, n, total) ==
    /\ \A i \in 1..n :
          /\ (first[i] = 0 - 1 /\ last[i] = 0 - 1) <=> rows[i] = 0
          /\ rows[i] = 0 <=> (first[i] = 0 - 1 \/ last[i] = 0 - 1)
          /\ rows[i] > 0 => last[i] - first[i] + 1 = rows[i]
    /\ \A r \in 0..(total - 1) :
          Cardinality({i \in 1..n : rows[i] > 0 /\ first[i] <= r /\ r <= last[i]}) = 1
    /\ \A i \in 1..n : rows[i] > 0 => (0 <= first[i] /\ last[i] <= total - 1)
    /\ \A i, j \in 1..n : (i < j /\ rows[i] > 0 /\ rows[j] > 0) => last[i] < first[j]

\* C2: for encode_objects and encode_relationships alike, an image gets the
\* sentinel (-1,-1) exactly when it emitted no row, and the ranges of the other
\* images, in image order, cover the flat array exactly once.
C2_RangesPartitionTheRows ==
    /\ ObjectsEncoded =>
          CsrPartition(enc_obj.im_to_first_obj, enc_obj.im_to_last_obj, ObjRows,
                       Len(obj_data), Len(enc_obj.encoded_labels))
    /\ RelationshipsEncoded =>
          CsrPartition(enc_rel.im_to_first_rel, enc_rel.im_to_last_rel, RelRows,
                       Len(rel_data), Len(enc_rel.encoded_rel))

\* An image without objects, then an image with two objects and an encoded
\* relationship: both encoders have returned.
C2_Witness ==
    /\ pc = "encode_splits"
    /\ enc_obj.im_to_first_obj = <<0 - 1, 0>> /\ enc_obj.im_to_last_obj = <<0 - 1, 1>>
    /\ enc_rel.im_to_first_rel = <<0 - 1, 0>> /\ enc_rel.im_to_last_rel = <<0 - 1, 0>>

\* first[i] <= last[i] or both are -1, for every image.
RangesWellFormed(first, last, n) ==
    \A i \in 1..n : first[i] <= last[i] \/ (first[i] = 0 - 1 /\ last[i] = 0 - 1)

\* C3 (as stated): first[i] <= last[i] or both are -1; and whenever image i has
\* entries, first[i+1] > last[i], also when image i+1 has no entries.
C3_AsStated ==
    /\ ObjectsEncoded =>
          /\ RangesWellFormed(enc_obj.im_to_first_obj, enc_obj.im_to_last_obj, Len(obj_data))
          /\ \A i \in 1..(Len(obj_data) - 1) :
                ObjRows[i] > 0 => enc_obj.im_to_first_obj[i + 1] > enc_obj.im_to_last_obj[i]
    /\ RelationshipsEncoded =>
          /\ RangesWellFormed(enc_rel.im_to_first_rel, enc_rel.im_to_last_rel, Len(rel_data))
          /\ \A i \in 1..(Len(rel_data) - 1) :
                RelRows[i] > 0 => enc_rel.im_to_first_rel[i + 1] > enc_rel.im_to_last_rel[i]

\* Whenever image i has entries: the next image j with entries has
\* first[j] = last[i] + 1, and an image i+1 without entries has first[i+1] = -1.
RangesAscend(first, last, rows, n) ==
    \A i \in 1..n : rows[i] > 0 =>
        /\ \A j \in (i + 1)..n :
              (rows[j] > 0 /\ \A k \in (i + 1)..(j - 1) : rows[k] = 0)
                  => (first[j] = last[i] + 1 /\ first[j] > last[i])
        /\ (i < n /\ rows[i + 1] = 0) => (first[i + 1] = 0 - 1 /\ first[i + 1] < last[i])

\* C3 (amended): first[i] <= last[i] or both are -1; and whenever image i has
\* entries, first[j] = last[i] + 1 > last[i] for the next image j that has
\* entries, while an image i+1 without entries holds first[i+1] = -1.
C3_RangesAscendOverImagesWithEntries ==
    /\ ObjectsEncoded =>
          /\ RangesWellFormed(enc_obj.im_to_first_obj, enc_obj.im_to_last_obj, Len(obj_data))
          /\ RangesAscend(enc_obj.im_to_first_obj, enc_obj.im_to_last_obj, ObjRows, Len(obj_data))
    /\ RelationshipsEncoded =>
          /\ RangesWellFormed(enc_rel.im_to_first_rel, enc_rel.im_to_last_rel, Len(rel_data))
          /\ RangesAscend(enc_rel.im_to_first_rel, enc_rel.im_to_last_rel, RelRows, Len(rel_data))

\* Three images, the second without objects: its range is the sentinel and the
\* third image takes up the rows where the first left them.
C3_Witness ==
    /\ ObjectsEncoded
    /\ enc_obj.im_to_first_obj = <<0, 0 - 1, 1>>
    /\ enc_obj.im_to_last_obj = <<0, 0 - 1, 1>>

\* C4: no row of the relationship array holds the same index twice, also for
\* a relation between two different ids absorbed into one merged object.
C4_NoSelfPair ==
    enc_rel # Idle =>
        \A k \in 1..Len(enc_rel.encoded_rel) : enc_rel.encoded_rel[k][1] # enc_rel.encoded_rel[k][2]

\* A relation between two different ids of one merged object has been rejected
\* as a duplicate.
C4_Witness ==
    /\ RelationshipsEncoded
    /\ enc_rel.duplicate_filtered = 1
    /\ \E r \in Range(rel_data[1].relationships) :
          /\ r.subject.object_id # r.object.object_id
          /\ \E k \in 1..Len(obj_data[1].objects) :
                {r.subject.object_id, r.object.object_id} \subseteq Range(obj_data[1].objects[k].ids)

\* The number of objects that carry the name t: its count in the corpus.
NameFrequency(t) ==
    SumSeq([i \in 1..Len(obj_data) |->
        Cardinality({k \in 1..Len(obj_data[i].objects) : t \in Range(obj_data[i].objects[k].names)})])

\* The kept objects of the images encode_objects has passed, in the order of their rows.
EncodedObjects == Concat([i \in 1..enc_obj.i |-> KeptObjects(i)])

\* C8: encode_objects emits a row for an object if and only if one of its
\* names is in the vocabulary, the label being the index of a name of maximal
\* corpus frequency among the in-vocabulary names of the object; an object
\* without such a name gets no label row, no box row and no id-to-index entry,
\* and no error is raised.
C8_LabelIsMostFrequentVocabName ==
    enc_obj # Idle =>
      LET encoded == EncodedObjects
          frequency == [t \in DOMAIN vocab.label_to_idx |-> NameFrequency(t)]
      IN
        /\ pc # "AssertionError"
        /\ Len(enc_obj.encoded_labels) = Len(encoded)
        /\ \A s \in 1..Len(img_long_sizes) : Len(enc_obj.encoded_boxes[s]) = Len(encoded)
        /\ \A r \in 1..Len(encoded) :
              \E name \in Range(encoded[r].names) :
                  /\ name \in DOMAIN vocab.label_to_idx
                  /\ enc_obj.encoded_labels[r] = vocab.label_to_idx[name]
                  /\ \A other \in Range(encoded[r].names) :
                        other \in DOMAIN vocab.label_to_idx
                            => frequency[other] <= frequency[name]
        /\ \A i \in 1..enc_obj.i : \A k \in 1..Len(obj_data[i].objects) :
              ~HasVocabName(obj_data[i].objects[k])
                  => Range(obj_data[i].objects[k].ids) \cap DOMAIN obj_data[i].id_to_idx = {}

\* An object with two names of the vocabulary, the second the more frequent,
\* has got the label of the second.
C8_Witness ==
    /\ ObjectsEncoded
    /\ Len(obj_data) = 1
    /\ Len(obj_data[1].objects) = 2
    /\ obj_data[1].objects[1].names = <<<<1>>, <<2>>>>
    /\ vocab.object_token_counter = (<<1>> :> 1 @@ <<2>> :> 2)
    /\ enc_obj.encoded_labels = <<2, 2>>

\* C9: the id-to-index table of an image has as keys the ids of the ids lists
\* of its kept objects, and maps every key to the row of the kept object of the
\* image that holds it, within the object range of the image;
\* encode_relationships counts as filtered by object every relation with an
\* end that belongs to no kept object, and every pair it emits holds the
\* table's indices of the subject id and of the object id, in that order.
C9_IdTableResolvesEndpoints ==
    /\ enc_obj # Idle =>
          LET encoded == EncodedObjects
          IN  \A i \in 1..enc_obj.i :
                LET kept == KeptObjects(i)
                    kept_ids == KeptIds(i)
                IN  /\ DOMAIN obj_data[i].id_to_idx = kept_ids
                    /\ \A id \in kept_ids :
                          LET row == obj_data[i].id_to_idx[id]
                              position == KeptPosition(i, id)
                          IN  /\ enc_obj.im_to_first_obj[i] <= row
                              /\ row <= enc_obj.im_to_last_obj[i]
                              /\ row - enc_obj.im_to_first_obj[i] + 1 = position
                              /\ id \in Range(encoded[row + 1].ids)
                              /\ encoded[row + 1] = kept[position]
    /\ enc_rel # Idle =>
          /\ enc_rel.obj_filtered =
                SumSeq([i \in 1..enc_rel.i |->
                    Cardinality({k \in 1..Len(rel_data[i].relationships) :
                                    ~Resolvable(i, rel_data[i].relationships[k])})])
          /\ enc_rel.encoded_rel =
                Concat([i \in 1..enc_rel.i |->
                    LET encodable == EncodableOf(i)
                    IN  [k \in 1..Len(encodable) |->
                            <<obj_data[i].id_to_idx[encodable[k].subject.object_id],
                              obj_data[i].id_to_idx[encodable[k].object.object_id]>>]])

\* The second object was absorbed by the first; the relation from it to the
\* third object is encoded as the pair of the rows 0 and 1.
C9_Witness ==
    /\ pc = "encode_splits"
    /\ Len(obj_data) = 1
    /\ obj_data[1].id_to_idx = (XmlObjectId(1) :> 0 @@ XmlObjectId(2) :> 0 @@ XmlObjectId(3) :> 1)
    /\ rel_data[1].relationships[1].subject.object_id = XmlObjectId(2)
    /\ rel_data[1].relationships[1].object.object_id = XmlObjectId(3)
    /\ enc_rel.encoded_rel = <<<<0, 1>>>>

====
